---- MODULE Spec2Model ----
(***************************************************************************)
(* pyBinSim: the pose tracker (inline_pose_parser.py), the partitioned     *)
(* convolver (convolver.py), the filter store (filterstorage.py) and the   *)
(* request loop (application.py).                                          *)
(*                                                                         *)
(* Representation of numbers.  Samples are integers.  A spectrum (the      *)
(* N+1 complex bins of a real FFT of length 2N) is held as the 2N real     *)
(* samples it is the transform of; the element-wise product of two spectra *)
(* is then the circular convolution modulo 2N of the two frames, the sum   *)
(* of spectra the sample-wise sum, and the inverse transform returns the   *)
(* frame.  Python sequences are 0-based in the source and 1-based here.    *)
(***************************************************************************)
EXTENDS Integers, Sequences, FiniteSets, TLC

VARIABLES
    poseParser,     \* InlinePoseParser: valueList, filtersUpdated
    convolvers,     \* ConvolverFFTW objects, by channel (0-based)
    convolverHP,    \* None or the stereo headphone convolver
    filterStorage,  \* FilterStorage object
    engine,         \* BinSim: phase, config, block, result, replies
    call,           \* the last call made on an object and its outcome
    hist            \* history kept for the properties (not program state)

vars == <<poseParser, convolvers, convolverHP, filterStorage, engine, call, hist>>

\* ---------------------------------------------------------------- bounds
maxChannels == 2
block_size == 3
IRBlocks == 2
MaxProcess == 2

\* ------------------------------------------------------ python helpers
None == << >>
Some(x) == << x >>
IsNone(o) == o = << >>
The(o) == o[1]
\* The one element of a singleton set (names a value that is computed once).
Only(S) == CHOOSE x \in S : TRUE

\* list[c] on a list of n elements: c in [-n, n) is accepted, negative c
\* counts from the end; anything else is an IndexError.
PyInRange(c, n) == c >= -n /\ c < n
PyNorm(c, n) == IF c < 0 THEN c + n ELSE c

Zeros(n) == [i \in 1..n |-> 0]
ZeroRows(r, n) == [i \in 1..r |-> Zeros(n)]

\* ------------------------------------------------------------- spectra
\* rfft of n = 2*block_size points over one block of block_size samples:
\* the block followed by block_size zeros.
rfft_padded(row) == row \o Zeros(Len(row))

\* rfft over a whole input window of 2*block_size samples.
rfft_window(buffer) == buffer

\* np.multiply of two spectra: sum over i of a[i] times b turned by i-1
\* places (the circular convolution of the two frames).
RECURSIVE CircAcc(_, _, _)
CircAcc(a, b, i) ==
    IF i = 0 THEN Zeros(Len(a))
    ELSE IF a[i] = 0 THEN CircAcc(a, b, i - 1)
    ELSE LET r == CircAcc(a, b, i - 1)
         IN  [k \in 1..Len(a) |-> r[k] + a[i] * b[((k - i) % Len(a)) + 1]]

SpecMul(a, b) == CircAcc(a, b, Len(a))
SpecAdd(a, b) == [k \in 1..Len(a) |-> a[k] + b[k]]
SpecScale(a, d) == [k \in 1..Len(a) |-> a[k] * d]

\* numpy broadcasting over the first axis: equal row counts, or one row.
RowsBroadcast(m, n) == m = n \/ m = 1 \/ n = 1
RowsOf(m, n) == IF m = 1 THEN n ELSE m
RowAt(a, i) == IF Len(a) = 1 THEN a[1] ELSE a[i]
MulRows(a, b) == [i \in 1..RowsOf(Len(a), Len(b)) |-> SpecMul(RowAt(a, i), RowAt(b, i))]
ScaleRows(a, d) == [i \in 1..Len(a) |-> SpecScale(a[i], d)]

RECURSIVE SumRows(_, _, _)
\* np.sum(np.multiply(TF, FDL), axis=0)
SumRows(tf, fdl, i) ==
    IF i = 0 THEN Zeros(2 * block_size)
    ELSE SpecAdd(SpecMul(tf[i], fdl[i]), SumRows(tf, fdl, i - 1))

\* irfft: the frame itself.
irfft(spec) == spec

\* A variant of the delay-line shift that leaves the rows where they are.
Roll_none(rows) == rows

\* np.roll(a, 1, axis=0)
Roll(a) == IF Len(a) = 0 THEN a
           ELSE [i \in 1..Len(a) |-> IF i = 1 THEN a[Len(a)] ELSE a[i - 1]]

\* ---------------------------------------------------------------- Filter
\* inputfilter is an [S, 2] array, held as its two columns.  oid stands for
\* the identity of the object.
Filter_init(oid, inputfilter, irBlocks, bs) ==
    IF inputfilter.ndim # 2
    THEN [raised |-> "IndexError", ret |-> None]
    ELSE IF Len(inputfilter.left) # irBlocks * bs
    THEN [raised |-> "ValueError", ret |-> None]
    ELSE [raised |-> "",
          ret |-> Some([ oid |-> oid,
                         ir_blocks |-> irBlocks,
                         block_size |-> bs,
                         IR_left_blocked |-> Some([r \in 1..irBlocks |->
                              SubSeq(inputfilter.left, (r - 1) * bs + 1, r * bs)]),
                         IR_right_blocked |-> Some([r \in 1..irBlocks |->
                              SubSeq(inputfilter.right, (r - 1) * bs + 1, r * bs)]),
                         filename |-> None,
                         fd_available |-> FALSE,
                         TF_left_blocked |-> None,
                         TF_right_blocked |-> None ])]

\* An rfft plan built by pyfftw.builders.rfft for input of shape
\* (rows, block_size), padded to 2 * block_size.  held: the input the plan
\* holds, zeros when it is built.
fftw_plan(rows, bs) == [rows |-> rows, block_size |-> bs, held |-> ZeroRows(rows, bs)]

\* plan(x), x an array of cols columns or None.  A new input is cut to the
\* shape the plan was built for and copied into the plan; an input with
\* fewer rows or columns than the plan raises ValueError.  Without an input
\* the plan transforms the input it holds.  out has plan.rows rows.
plan_call(plan, x, cols) ==
    IF IsNone(x)
    THEN [raised |-> "", plan |-> plan,
          out |-> [r \in 1..plan.rows |-> rfft_padded(plan.held[r])]]
    ELSE IF Len(The(x)) < plan.rows \/ cols < plan.block_size
    THEN [raised |-> "ValueError", plan |-> plan, out |-> << >>]
    ELSE [raised |-> "",
          plan |-> [plan EXCEPT !.held = [r \in 1..plan.rows |->
                                            SubSeq(The(x)[r], 1, plan.block_size)]],
          out |-> [r \in 1..plan.rows |->
                     rfft_padded(SubSeq(The(x)[r], 1, plan.block_size))]]

\* a[:] = out for an array a of rows rows and bs + 1 bins: out is broadcast
\* when it has one row, and rejected (ValueError) when its shape differs
\* otherwise.
Broadcasts(out, rows, bs) ==
    /\ Len(out) = rows \/ Len(out) = 1
    /\ \A r \in 1..Len(out) : Len(out[r]) = 2 * bs
BroadcastRows(out, rows) == [r \in 1..rows |-> RowAt(out, r)]

\* np.multiply(row, window): element by element, a window of one element
\* taken for every element.
MultiplyRow(row, window) == [i \in 1..Len(row) |-> row[i] * RowAt(window, i)]

\* IR_left_blocked[k, :] = np.multiply(IR_left_blocked[k, :], window), then
\* the same on IR_right_blocked, k a Python index.  A Filter whose
\* time-domain data was discarded raises TypeError, a Filter without the row
\* IndexError, a window that is neither of one element nor of block_size
\* elements ValueError; a call that raises has changed nothing.
MultiplyRowAt(f, k, window) ==
    IF IsNone(f.IR_left_blocked)
    THEN [raised |-> "TypeError", f |-> f]
    ELSE IF k >= Len(The(f.IR_left_blocked)) \/ k < 0 - Len(The(f.IR_left_blocked))
    THEN [raised |-> "IndexError", f |-> f]
    ELSE IF Len(window) \notin {1, f.block_size}
    THEN [raised |-> "ValueError", f |-> f]
    ELSE [raised |-> "",
          f |-> [f EXCEPT
                   !.IR_left_blocked = Some([The(@) EXCEPT
                       ![PyNorm(k, Len(The(@))) + 1] = MultiplyRow(@, window)]),
                   !.IR_right_blocked = Some([The(@) EXCEPT
                       ![PyNorm(k, Len(The(@))) + 1] = MultiplyRow(@, window)])]]

apply_fadeout(f, window) == MultiplyRowAt(f, f.ir_blocks - 1, window)
apply_fadein(f, window) == MultiplyRowAt(f, 0, window)

\* Returns the filter and the plan as the call leaves them.
storeInFDomain(f, plan) ==
    Only({ Only({ IF l.raised # "" \/ ~Broadcasts(l.out, f.ir_blocks, f.block_size)
                  THEN [raised |-> "ValueError", f |-> z, plan |-> l.plan]
                  ELSE [raised |-> "",
                        f |-> [z EXCEPT
                                 !.TF_left_blocked = Some(BroadcastRows(l.out, f.ir_blocks)),
                                 !.TF_right_blocked = Some(BroadcastRows(r.out, f.ir_blocks)),
                                 !.fd_available = TRUE,
                                 !.IR_left_blocked = None,
                                 !.IR_right_blocked = None],
                        plan |-> r.plan] :
                  r \in {plan_call(l.plan, f.IR_right_blocked, f.block_size)} }) :
           l \in {plan_call(plan, f.IR_left_blocked, f.block_size)},
           z \in {[f EXCEPT
                     !.TF_left_blocked = Some(ZeroRows(f.ir_blocks, 2 * f.block_size)),
                     !.TF_right_blocked = Some(ZeroRows(f.ir_blocks, 2 * f.block_size))]} })

getFilterFD(f) ==
    IF ~f.fd_available
    THEN [left |-> ZeroRows(f.ir_blocks, 2 * f.block_size),
          right |-> ZeroRows(f.ir_blocks, 2 * f.block_size)]
    ELSE [left |-> The(f.TF_left_blocked), right |-> The(f.TF_right_blocked)]

\* A prepared filter made of the given columns (Filter(...); storeInFDomain).
PreparedFilter(oid, left, right, irBlocks, bs) ==
    storeInFDomain(The(Filter_init(oid, [left |-> left, right |-> right, ndim |-> 2], irBlocks, bs).ret),
                   fftw_plan(irBlocks, bs)).f

\* --------------------------------------------------------- ConvolverFFTW
\* The crossfade windows, in units of 1/WScale:
\* crossFadeOut[n] = cos^2(n/(N-1) * pi/2) = (1 + cos(n*pi/(N-1)))/2, exact
\* for N-1 in 1..3 (the rounding of the float32 cosine is left out).
WScale == 4
TwiceCos(n, d) ==
    IF 2 * n = d THEN 0
    ELSE IF n = 0 THEN 2
    ELSE IF n = d THEN -2
    ELSE IF 3 * n = d THEN 1
    ELSE -1
crossFadeOut(n, bs) == 2 + TwiceCos(n, bs - 1)
crossFadeIn(n, bs) == crossFadeOut(bs - 1 - n, bs)

ConvolverFFTW_init(ir_size, bs, process_stereo, useSplittedFilters, lateReverbSize) ==
    LET late_IR_blocks == IF useSplittedFilters THEN lateReverbSize \div bs ELSE 0
        IR_size == IF useSplittedFilters THEN ir_size + lateReverbSize ELSE ir_size
        IR_blocks == IR_size \div bs
    IN  [ IR_size |-> IR_size,
          block_size |-> bs,
          reverbSize |-> lateReverbSize,
          late_IR_blocks |-> late_IR_blocks,
          useSplittedFilters |-> useSplittedFilters,
          IR_blocks |-> IR_blocks,
          late_early_transition |-> IR_blocks - late_IR_blocks,
          buffer |-> Zeros(2 * bs),
          buffer2 |-> Zeros(2 * bs),
          TF_late_left_blocked |-> ZeroRows(late_IR_blocks, 2 * bs),
          TF_late_right_blocked |-> ZeroRows(late_IR_blocks, 2 * bs),
          TF_left_blocked |-> ZeroRows(IR_blocks, 2 * bs),
          TF_right_blocked |-> ZeroRows(IR_blocks, 2 * bs),
          TF_left_blocked_previous |-> ZeroRows(IR_blocks, 2 * bs),
          TF_right_blocked_previous |-> ZeroRows(IR_blocks, 2 * bs),
          FDL_left |-> ZeroRows(IR_blocks, 2 * bs),
          FDL_right |-> ZeroRows(IR_blocks, 2 * bs),
          outputLeft |-> Zeros(bs),
          outputRight |-> Zeros(bs),
          processCounter |-> 0,
          interpolate |-> FALSE,
          buildNewFilter |-> FALSE,
          processStereo |-> process_stereo ]

\* A variant of the slice assignment that writes every row of a.
AssignFront_all(a, t, rows) ==
    [i \in 1..Len(a) |-> RowAt(rows, IF i <= t THEN i ELSE 1)]

\* a[0:t, :] = rows, with rows of t rows or of one row (broadcast).
AssignFront(a, t, rows) ==
    [i \in 1..Len(a) |-> IF i <= t THEN RowAt(rows, i) ELSE a[i]]

\* dir_filter: None stands for the default argument, the integer 1.
setIR(conv, filter, do_interpolation, dist, dir_filter) ==
    LET fd == getFilterFD(filter)
        t == conv.late_early_transition
    IN  IF IsNone(dir_filter)
        THEN [raised |-> "AttributeError", conv |-> conv]
        ELSE LET dfd == getFilterFD(The(dir_filter))
             IN  IF ~RowsBroadcast(Len(fd.left), Len(dfd.left))
                    \/ (RowsOf(Len(fd.left), Len(dfd.left)) # t
                          /\ RowsOf(Len(fd.left), Len(dfd.left)) # 1)
                 THEN [raised |-> "ValueError", conv |-> conv]
                 ELSE [raised |-> "",
                       conv |-> [conv EXCEPT
                          !.TF_left_blocked =
                              AssignFront(@, t, ScaleRows(MulRows(fd.left, dfd.left), dist)),
                          !.TF_right_blocked =
                              AssignFront(@, t, ScaleRows(MulRows(fd.right, dfd.right), dist)),
                          !.interpolate = do_interpolation,
                          !.buildNewFilter = TRUE]]

\* A variant of setLateReverb that leaves the interpolate flag as it was.
setLateReverb_keep_flag(conv, filter, do_interpolation) ==
    LET fd == getFilterFD(filter)
        n == conv.late_IR_blocks
    IN  IF Len(fd.left) # n /\ Len(fd.left) # 1
        THEN [raised |-> "ValueError", conv |-> conv]
        ELSE [raised |-> "",
              conv |-> [conv EXCEPT
                 !.TF_late_left_blocked = [i \in 1..Len(@) |-> IF i <= n THEN RowAt(fd.left, i) ELSE @[i]],
                 !.TF_late_right_blocked = [i \in 1..Len(@) |-> IF i <= n THEN RowAt(fd.right, i) ELSE @[i]],
                 !.buildNewFilter = TRUE]]

setLateReverb(conv, filter, do_interpolation) ==
    LET fd == getFilterFD(filter)
        n == conv.late_IR_blocks
    IN  IF Len(fd.left) # n /\ Len(fd.left) # 1
        THEN [raised |-> "ValueError", conv |-> conv]
        ELSE [raised |-> "",
              conv |-> [conv EXCEPT
                 !.TF_late_left_blocked = AssignFront(@, n, fd.left),
                 !.TF_late_right_blocked = AssignFront(@, n, fd.right),
                 !.interpolate = do_interpolation,
                 !.buildNewFilter = TRUE]]

saveOldFilters(conv) ==
    [conv EXCEPT !.TF_left_blocked_previous = conv.TF_left_blocked,
                 !.TF_right_blocked_previous = conv.TF_right_blocked]

\* A variant of buildFilters that clears the flag without copying the tail.
buildFilters_no_copy(conv) ==
    IF conv.useSplittedFilters /\ conv.buildNewFilter
    THEN [conv EXCEPT !.buildNewFilter = FALSE]
    ELSE conv

buildFilters(conv) ==
    IF conv.useSplittedFilters /\ conv.buildNewFilter
    THEN [conv EXCEPT
            !.TF_left_blocked = [i \in 1..Len(@) |->
                IF i > conv.late_early_transition
                THEN conv.TF_late_left_blocked[i - conv.late_early_transition] ELSE @[i]],
            !.TF_right_blocked = [i \in 1..Len(@) |->
                IF i > conv.late_early_transition
                THEN conv.TF_late_right_blocked[i - conv.late_early_transition] ELSE @[i]],
            !.buildNewFilter = FALSE]
    ELSE conv

\* block: the block_size samples of a mono block.
fill_buffer_mono(conv, block) ==
    LET bs == conv.block_size
        buf == IF conv.processCounter = 0
               THEN SubSeq(conv.buffer, 1, bs) \o block
               ELSE SubSeq(conv.buffer, bs + 1, 2 * bs) \o block
        fl == IF conv.processCounter = 0 THEN conv.FDL_left ELSE Roll(conv.FDL_left)
        fr == IF conv.processCounter = 0 THEN conv.FDL_right ELSE Roll(conv.FDL_right)
    IN  [conv EXCEPT
            !.buffer = buf,
            !.FDL_left = [fl EXCEPT ![1] = rfft_window(buf)],
            !.FDL_right = [fr EXCEPT ![1] = rfft_window(buf)]]

\* block: the two columns of an [N, 2] block.
fill_buffer_stereo(conv, block) ==
    LET bs == conv.block_size
        buf == IF conv.processCounter = 0
               THEN SubSeq(conv.buffer, 1, bs) \o block.left
               ELSE SubSeq(conv.buffer, bs + 1, 2 * bs) \o block.left
        buf2 == IF conv.processCounter = 0
                THEN SubSeq(conv.buffer2, 1, bs) \o block.right
                ELSE SubSeq(conv.buffer2, bs + 1, 2 * bs) \o block.right
        fl == IF conv.processCounter = 0 THEN conv.FDL_left ELSE Roll(conv.FDL_left)
        fr == IF conv.processCounter = 0 THEN conv.FDL_right ELSE Roll(conv.FDL_right)
    IN  [conv EXCEPT
            !.buffer = buf,
            !.buffer2 = buf2,
            !.FDL_left = [fl EXCEPT ![1] = rfft_window(buf)],
            !.FDL_right = [fr EXCEPT ![1] = rfft_window(buf2)]]

\* A variant of Render that takes the first half of the inverse transform.
Render_first_half(tf, fdl, bs) ==
    LET y == irfft(SumRows(tf, fdl, Len(tf)))
    IN  [n \in 1..bs |-> y[n]]

\* The second half of the inverse transform of sum(TF * FDL).
Render(tf, fdl, bs) ==
    LET y == irfft(SumRows(tf, fdl, Len(tf)))
    IN  [n \in 1..bs |-> y[bs + n]]

\* outputLeft and outputRight are held in units of 1/WScale.
process(conv, block) ==
    LET bs == conv.block_size
        c1 == IF ~conv.processStereo
              THEN fill_buffer_mono(conv, block)
              ELSE fill_buffer_stereo(conv, block)
        c2 == saveOldFilters(c1)
        c3 == buildFilters(c2)
        yl == Render(c3.TF_left_blocked, c3.FDL_left, bs)
        yr == Render(c3.TF_right_blocked, c3.FDL_right, bs)
        pl == Render(c3.TF_left_blocked_previous, c3.FDL_left, bs)
        pr == Render(c3.TF_right_blocked_previous, c3.FDL_right, bs)
        outL == IF c3.interpolate
                THEN [n \in 1..bs |-> yl[n] * crossFadeIn(n - 1, bs)
                                        + pl[n] * crossFadeOut(n - 1, bs)]
                ELSE [n \in 1..bs |-> yl[n] * WScale]
        outR == IF c3.interpolate
                THEN [n \in 1..bs |-> yr[n] * crossFadeIn(n - 1, bs)
                                        + pr[n] * crossFadeOut(n - 1, bs)]
                ELSE [n \in 1..bs |-> yr[n] * WScale]
    IN  [c3 EXCEPT !.outputLeft = outL,
                   !.outputRight = outR,
                   !.processCounter = @ + 1,
                   !.interpolate = FALSE]

\* ------------------------------------------------------ InlinePoseParser
Azimuths == {0, 30}
Elevations == {0, 10}
ValidChannels == 0..(maxChannels - 1)
ChannelIds == (0 - maxChannels - 1)..(maxChannels + 1)

defaultValue == <<0, 0, 0, 0, 0, 0, 0, 0, 0>>

InlinePoseParser_init(n) ==
    [ filtersUpdated |-> [c \in 0..(n - 1) |-> TRUE],
      valueList      |-> [c \in 0..(n - 1) |-> defaultValue] ]

NumChannels(pp) == Cardinality(DOMAIN pp.valueList)

\* Outcome of a call: raised, the returned value, the object afterwards.
parse_pose_input_noflag(pp, channel, azimuth, elevation) ==
    LET n == NumChannels(pp)
        poseData == <<azimuth, elevation>>
    IN  IF ~PyInRange(channel, n)
        THEN [raised |-> "IndexError", ret |-> None, pp |-> pp]
        ELSE LET c == PyNorm(channel, n)
             IN  IF poseData # SubSeq(pp.valueList[c], 1, Len(poseData))
                 THEN [raised |-> "", ret |-> None,
                       pp |-> [pp EXCEPT
                          !.valueList[c] = poseData \o SubSeq(defaultValue, Len(poseData) + 1, 9)]]
                 ELSE [raised |-> "", ret |-> None, pp |-> pp]

parse_pose_input(pp, channel, azimuth, elevation) ==
    LET n == NumChannels(pp)
        poseData == <<azimuth, elevation>>
    IN  IF ~PyInRange(channel, n)
        THEN [raised |-> "IndexError", ret |-> None, pp |-> pp]
        ELSE LET c == PyNorm(channel, n)
             IN  IF poseData # SubSeq(pp.valueList[c], 1, Len(poseData))
                 THEN [raised |-> "", ret |-> None,
                       pp |-> [pp EXCEPT
                          !.filtersUpdated[c] = TRUE,
                          !.valueList[c] = poseData \o SubSeq(defaultValue, Len(poseData) + 1, 9)]]
                 ELSE [raised |-> "", ret |-> None, pp |-> pp]

is_filter_update_necessary(pp, channel) ==
    LET n == NumChannels(pp)
    IN  IF ~PyInRange(channel, n)
        THEN [raised |-> "IndexError", ret |-> None, pp |-> pp]
        ELSE [raised |-> "", ret |-> Some(pp.filtersUpdated[PyNorm(channel, n)]), pp |-> pp]

get_current_values(pp, channel) ==
    LET n == NumChannels(pp)
    IN  IF ~PyInRange(channel, n)
        THEN [raised |-> "IndexError", ret |-> None, pp |-> pp]
        ELSE LET c == PyNorm(channel, n)
             IN  [raised |-> "", ret |-> Some(pp.valueList[c]),
                  pp |-> [pp EXCEPT !.filtersUpdated[c] = FALSE]]

\* ------------------------------------------- the pose tracker, driven alone
NoCall == [op |-> "none", channel |-> 0, pose |-> <<0, 0>>, raised |-> "", ret |-> None]

\* consumed[c]: get_current_values(c) was called and no parse_pose_input(c, ..)
\* with a direction other than the last one passed for c came after it.
\* asked[c]: the direction last passed for c.  oor: an id outside
\* [0, maxChannels) was passed (consumed and asked are not kept after that).
\* touched: the last call changed the tracker.
PoseHist0 ==
    [ consumed |-> [c \in ValidChannels |-> FALSE],
      asked    |-> [c \in ValidChannels |-> <<0, 0>>],
      oor      |-> FALSE,
      touched  |-> FALSE ]

PoseHistOor(t) == [PoseHist0 EXCEPT !.oor = TRUE, !.touched = t]

InitPose ==
    /\ poseParser = InlinePoseParser_init(maxChannels)
    /\ convolvers = << >>
    /\ convolverHP = None
    /\ filterStorage = None
    /\ engine = None
    /\ call = NoCall
    /\ hist = PoseHist0

PoseFrame == UNCHANGED <<convolvers, convolverHP, filterStorage, engine>>

call_parse_pose_input ==
    \E ch \in ChannelIds, az \in Azimuths, el \in Elevations :
        LET r == parse_pose_input(poseParser, ch, az, el)
        IN  /\ poseParser' = r.pp
            /\ call' = [op |-> "parse_pose_input", channel |-> ch, pose |-> <<az, el>>,
                        raised |-> r.raised, ret |-> r.ret]
            /\ hist' = IF ch \in ValidChannels /\ ~hist.oor
                       THEN [hist EXCEPT
                               !.consumed[ch] = @ /\ (<<az, el>> = hist.asked[ch]),
                               !.asked[ch] = <<az, el>>,
                               !.touched = (r.pp # poseParser)]
                       ELSE PoseHistOor(r.pp # poseParser)
            /\ PoseFrame

call_is_filter_update_necessary ==
    \E ch \in ChannelIds :
        LET r == is_filter_update_necessary(poseParser, ch)
        IN  /\ poseParser' = r.pp
            /\ call' = [op |-> "is_filter_update_necessary", channel |-> ch,
                        pose |-> <<0, 0>>, raised |-> r.raised, ret |-> r.ret]
            /\ hist' = IF ch \in ValidChannels /\ ~hist.oor
                       THEN [hist EXCEPT !.touched = (r.pp # poseParser)]
                       ELSE PoseHistOor(r.pp # poseParser)
            /\ PoseFrame

call_get_current_values ==
    \E ch \in ChannelIds :
        LET r == get_current_values(poseParser, ch)
        IN  /\ poseParser' = r.pp
            /\ call' = [op |-> "get_current_values", channel |-> ch,
                        pose |-> <<0, 0>>, raised |-> r.raised, ret |-> r.ret]
            /\ hist' = IF ch \in ValidChannels /\ ~hist.oor
                       THEN [hist EXCEPT !.consumed[ch] = TRUE,
                                         !.touched = (r.pp # poseParser)]
                       ELSE PoseHistOor(r.pp # poseParser)
            /\ PoseFrame

NextPose ==
    \/ call_parse_pose_input
    \/ call_is_filter_update_necessary
    \/ call_get_current_values

SpecPose == InitPose /\ [][NextPose]_vars

\* C3: as long as only ids in [0, maxChannels) are passed, filtersUpdated[ch]
\* is true initially, false from get_current_values(ch) on, through every
\* parse_pose_input(ch, a, e) repeating the direction last passed for ch and
\* every call on another channel, and true again from the first
\* parse_pose_input(ch, a', e') with another direction; and
\* is_filter_update_necessary(ch) returns that flag.
C3_PoseDirty ==
    ~hist.oor =>
        /\ \A ch \in ValidChannels :
              poseParser.filtersUpdated[ch] = ~hist.consumed[ch]
        /\ (call.op = "is_filter_update_necessary" =>
              call.raised = "" /\ call.ret = Some(~hist.consumed[call.channel]))

\* The flag is still false after the consumed direction was passed again.
C3_Witness ==
    /\ ~hist.oor
    /\ call.op = "parse_pose_input"
    /\ hist.consumed[call.channel]
    /\ call.pose # <<0, 0>>
    /\ \E c \in ValidChannels : c # call.channel /\ ~hist.consumed[c]

\* C6: every call carrying an id outside [0, maxChannels), negative ids
\* included, raises and leaves the tracker as it was.
C6_OutOfRangeRaises ==
    (call.op # "none" /\ call.channel \notin ValidChannels) =>
        (call.raised # "" /\ ~hist.touched)

\* --------------------------------------------------------------- sizes
Delta(n, at, v) == [i \in 1..n |-> IF i = at THEN v ELSE 0]
EarlySize == IRBlocks * block_size
LateSize == block_size
DirSize == EarlySize

\* ------------------------------------------------------------------ Pose
\* pose.py is not among the sources at hand.  A Pose is modelled from the
\* specification: nine fields (orientation, position, custom), a key made of
\* all of them and a coordinate made of the first two.
\* A field value and how it was written: a token of the filter list ("str"),
\* a Python int ("int") or a Python float ("float").
Tok(n) == [n |-> n, t |-> "str"]
PyInt(n) == [n |-> n, t |-> "int"]
PyFloat(n) == [n |-> n, t |-> "float"]

\* str(x): the token itself, the decimal digits of an int, and the digits
\* followed by ".0" for a float with an integral value.
StrOf(v) == [digits |-> v.n, dot0 |-> (v.t = "float")]

\* Pose.from_filterValueList: nine values (orientation, position, custom),
\* or six in the old format (custom is then three int zeros).
Pose_from_filterValueList(fvl) ==
    IF Len(fvl) = 9 THEN [raised |-> "", ret |-> Some(fvl)]
    ELSE IF Len(fvl) = 6
    THEN [raised |-> "", ret |-> Some(fvl \o <<PyInt(0), PyInt(0), PyInt(0)>>)]
    ELSE [raised |-> "RuntimeError", ret |-> None]

\* Pose.create_key: the strings of all nine fields, in order.
create_key(pose) == [i \in 1..Len(pose) |-> StrOf(pose[i])]

\* pose.orientation[0:2]
Orientation2(pose) == <<pose[1], pose[2]>>

\* --------------------------------------------------------- FilterStorage
\* A line of the filter list: its first token, the integer fields between
\* the first token and the path (for a line starting with a number, that
\* number is the first field), and the path.
Line(tok, fields, path) == [tok |-> tok, fields |-> fields, path |-> path]

\* str.startswith on the first token, over the tokens used here.
StartsWith(tok, prefix) ==
    \/ tok = prefix
    \/ (prefix = "FILTER" /\ tok \in {"FILTERS", "FILTER_OLD"})
    \/ (prefix = "HPFILTER" /\ tok \in {"HPFILTERS"})
    \/ (prefix = "LATEREVERB" /\ tok \in {"LATEREVERBS"})
    \/ (prefix = "DIRECTIVITY" /\ tok \in {"DIRECTIVITYS"})
    \/ (prefix = "#" /\ tok \in {"#FILTER"})
IsDigitTok(tok) == tok \in {"0", "14", "30", "60"}

\* The impulse-response files: path -> the columns sf.read returns.
Stereo(l, r) == [left |-> l, right |-> r, channels |-> 2]
Mono(m) == [left |-> m, right |-> m, channels |-> 1]
Files ==
    [ p \in {"a.wav", "b.wav", "late.wav", "dir.wav", "hp.wav", "short.wav", "long.wav"} |->
        CASE p = "a.wav" -> Stereo(Delta(EarlySize, 1, 1), Delta(EarlySize, EarlySize, 1))
          [] p = "b.wav" -> Stereo(Delta(EarlySize, 2, 2), Delta(EarlySize, block_size + 1, 1))
          [] p = "late.wav" -> Stereo(Delta(LateSize, 1, 1), Delta(LateSize, LateSize, 1))
          [] p = "dir.wav" -> Mono(Delta(DirSize, 1, 1))
          [] p = "hp.wav" -> Stereo(Delta(EarlySize, 1, 1), Delta(EarlySize, 1, 1))
          [] p = "short.wav" -> Stereo(Delta(LateSize - 1, 1, 1), Delta(LateSize - 1, 1, 1))
          [] p = "long.wav" -> Stereo(Delta(EarlySize + 1, 1, 1), Delta(EarlySize + 1, 1, 1)) ]

PadTo(col, n) == IF Len(col) < n THEN col \o Zeros(n - Len(col)) ELSE col
CutTo(col, n) == IF Len(col) > n THEN SubSeq(col, 1, n) ELSE col

\* filter_type: "Filter", "LateReverbFilter", "Directivity".  A mono file is
\* read as a one-dimensional array unless it is a directivity, whose columns
\* are stacked twice; zero rows of width 2 are appended only to width 2.
Data(l, r, ndim) == [left |-> l, right |-> r, ndim |-> ndim]
load_filter(fs, filter_path, filter_type) ==
    IF filter_path \notin DOMAIN Files
    THEN [raised |-> "RuntimeError", ret |-> None]
    ELSE LET cur == Files[filter_path]
             size == Len(cur.left)
             ndim == IF filter_type # "Directivity" /\ cur.channels = 1 THEN 1 ELSE 2
             width == IF filter_type = "Directivity" THEN 2 * cur.channels ELSE cur.channels
         IN  IF filter_type = "Filter"
             THEN IF size < fs.ir_size /\ (ndim # 2 \/ width # 2)
                  THEN [raised |-> "ValueError", ret |-> None]
                  ELSE [raised |-> "",
                        ret |-> Some(Data(CutTo(PadTo(cur.left, fs.ir_size), fs.ir_size),
                                          CutTo(PadTo(cur.right, fs.ir_size), fs.ir_size),
                                          ndim))]
             ELSE IF filter_type = "LateReverbFilter"
             THEN [raised |-> "",
                   ret |-> Some(Data(CutTo(cur.left, fs.lateReverbSize),
                                     CutTo(cur.right, fs.lateReverbSize), ndim))]
             ELSE IF size < fs.directivitySize /\ width # 2
             THEN [raised |-> "ValueError", ret |-> None]
             ELSE [raised |-> "",
                   ret |-> Some(Data(CutTo(PadTo(cur.left, fs.directivitySize),
                                           fs.directivitySize),
                                     CutTo(PadTo(cur.right, fs.directivitySize),
                                           fs.directivitySize), ndim))]

\* The store before load_filters(): sizes, default filters, empty maps.
FilterStorage_fields(irSize, bs, useHeadphoneFilter, headphoneFilterSize, useSplittedFilters, lateReverbSize, directivitySize) ==
    [ ir_size |-> irSize,
      ir_blocks |-> irSize \div bs,
      block_size |-> bs,
      default_filter |->
          Some(PreparedFilter(-1, Zeros(irSize), Zeros(irSize), irSize \div bs, bs)),
      useHeadphoneFilter |-> useHeadphoneFilter,
      headphone_ir_blocks |-> IF useHeadphoneFilter THEN headphoneFilterSize \div bs ELSE 0,
      useSplittedFilters |-> useSplittedFilters,
      lateReverbSize |-> IF useSplittedFilters THEN lateReverbSize ELSE 0,
      late_ir_blocks |-> IF useSplittedFilters THEN lateReverbSize \div bs ELSE 0,
      default_late_reverb_filter |->
          IF useSplittedFilters
          THEN Some(PreparedFilter(-2, Zeros(lateReverbSize), Zeros(lateReverbSize),
                                   lateReverbSize \div bs, bs))
          ELSE None,
      directivitySize |-> directivitySize,
      dir_ir_blocks |-> directivitySize \div bs,
      default_directivity_filter |->
          Some(PreparedFilter(-3, Zeros(directivitySize), Zeros(directivitySize),
                              directivitySize \div bs, bs)),
      filter_fftw_plan |-> fftw_plan(directivitySize \div bs, bs),
      hp_filter_fftw_plan |-> fftw_plan(headphoneFilterSize \div bs, bs),
      late_filter_fftw_plan |-> fftw_plan(lateReverbSize \div bs, bs),
      headphone_filter |-> None,
      filter_dict |-> << >>,
      late_reverb_filter_dict |-> << >>,
      directivity_dict |-> << >>,
      filter_arr |-> << >>,
      late_reverb_arr |-> << >>,
      directivity_arr |-> << >>,
      tie |-> "first",
      loaded |-> FALSE ]

\* dict.update({key: value})
DictPut(d, key, value) ==
    [k \in (DOMAIN d) \cup {key} |-> IF k = key THEN value ELSE d[k]]

\* What parse_filter_list yields for one line: "skip", "hp", "error", or an
\* entry with its filter type.
parse_line(fs, line) ==
    IF StartsWith(line.tok, "#") \/ line.tok = ""
    THEN [kind |-> "skip", type |-> "Undefined"]
    ELSE IF StartsWith(line.tok, "HPFILTER")
    THEN [kind |-> IF fs.useHeadphoneFilter THEN "hp" ELSE "skip", type |-> "Undefined"]
    ELSE IF IsDigitTok(line.tok) THEN [kind |-> "entry", type |-> "Filter"]
    ELSE IF StartsWith(line.tok, "FILTER") THEN [kind |-> "entry", type |-> "Filter"]
    ELSE IF StartsWith(line.tok, "LATEREVERB")
    THEN IF fs.useSplittedFilters
         THEN [kind |-> "entry", type |-> "LateReverbFilter"]
         ELSE [kind |-> "skip", type |-> "Undefined"]
    ELSE IF StartsWith(line.tok, "DIRECTIVITY") THEN [kind |-> "entry", type |-> "Directivity"]
    ELSE [kind |-> "error", type |-> "Undefined"]

\* The pose coordinates appended to the arrays: list(map(float, orientation[0:2])).
FloatCoord(pose) == <<PyFloat(pose[1].n), PyFloat(pose[2].n)>>

\* One line of the list taken through the generator parse_filter_list, which
\* load_filters runs to its end before it loads any entry: the headphone
\* filter is loaded here, and a wrong first token or pose raises here.
\* k is the position of the line (the identity of the Filter made for it).
parse_filter_list_line(fs, line, k) ==
    LET pl == parse_line(fs, line)
    IN  IF pl.kind = "skip" THEN [raised |-> "", fs |-> fs]
        ELSE IF pl.kind = "error" THEN [raised |-> "RuntimeError", fs |-> fs]
        ELSE IF pl.kind = "hp"
        THEN LET ir == load_filter(fs, line.path, "Filter")
             IN  IF ir.raised # "" THEN [raised |-> ir.raised, fs |-> fs]
                 ELSE LET f == Filter_init(k, The(ir.ret), fs.headphone_ir_blocks, fs.block_size)
                      IN  IF f.raised # "" THEN [raised |-> f.raised, fs |-> fs]
                          ELSE LET g == storeInFDomain(The(f.ret), fs.hp_filter_fftw_plan)
                               IN  [raised |-> g.raised,
                                    fs |-> IF g.raised # ""
                                           THEN [fs EXCEPT !.hp_filter_fftw_plan = g.plan]
                                           ELSE [fs EXCEPT !.headphone_filter = Some(g.f),
                                                           !.hp_filter_fftw_plan = g.plan]]
        ELSE [raised |-> Pose_from_filterValueList([i \in 1..Len(line.fields) |->
                                                       Tok(line.fields[i])]).raised,
              fs |-> fs]

RECURSIVE parse_filter_list(_, _, _)
parse_filter_list(fs, lines, k) ==
    IF k > Len(lines) THEN [raised |-> "", fs |-> fs]
    ELSE Only({ IF r.raised # "" THEN r ELSE parse_filter_list(r.fs, lines, k + 1) :
                   r \in {parse_filter_list_line(fs, lines[k].line, lines[k].at)} })

\* One parsed entry taken through the loop of load_filters.
load_line(fs, line, k) ==
    LET pl == parse_line(fs, line)
    IN  IF pl.kind # "entry" THEN [raised |-> "", fs |-> fs]
        ELSE LET pose == Pose_from_filterValueList([i \in 1..Len(line.fields) |->
                                                       Tok(line.fields[i])])
                 ir == load_filter(fs, line.path, pl.type)
                 blocks == IF pl.type = "Filter" THEN fs.ir_blocks
                           ELSE IF pl.type = "LateReverbFilter" THEN fs.late_ir_blocks
                           ELSE fs.dir_ir_blocks
             IN  IF pose.raised # "" THEN [raised |-> pose.raised, fs |-> fs]
                 ELSE IF ir.raised # "" THEN [raised |-> ir.raised, fs |-> fs]
                 ELSE LET f == Filter_init(k, The(ir.ret), blocks, fs.block_size)
                          key == create_key(The(pose.ret))
                          xy == FloatCoord(The(pose.ret))
                      IN  IF f.raised # "" THEN [raised |-> f.raised, fs |-> fs]
                          ELSE LET sd == storeInFDomain(The(f.ret),
                                                        IF pl.type = "LateReverbFilter"
                                                        THEN fs.late_filter_fftw_plan
                                                        ELSE fs.filter_fftw_plan)
                                   g == sd.f
                               IN  IF sd.raised # "" THEN [raised |-> sd.raised, fs |-> fs]
                                   ELSE
                                   [raised |-> "",
                                    fs |-> IF pl.type = "Filter"
                                           THEN [fs EXCEPT
                                                   !.filter_fftw_plan = sd.plan,
                                                   !.filter_dict = DictPut(@, key, g),
                                                   !.filter_arr = Append(@, xy)]
                                           ELSE IF pl.type = "LateReverbFilter"
                                           THEN [fs EXCEPT
                                                   !.late_filter_fftw_plan = sd.plan,
                                                   !.late_reverb_filter_dict = DictPut(@, key, g),
                                                   !.late_reverb_arr = Append(@, xy)]
                                           ELSE [fs EXCEPT
                                                   !.filter_fftw_plan = sd.plan,
                                                   !.directivity_dict = DictPut(@, key, g),
                                                   !.directivity_arr = Append(@, xy)]]

RECURSIVE load_lines(_, _, _)
load_lines(fs, lines, k) ==
    IF k > Len(lines) THEN [raised |-> "", fs |-> fs]
    ELSE Only({ IF r.raised # "" THEN r ELSE load_lines(r.fs, lines, k + 1) :
                   r \in {load_line(fs, lines[k].line, lines[k].at)} })

\* KDTree(arr): an empty point list is rejected (the data must be an array
\* of shape (n, m)).
KDTree_accepts(arr) == Len(arr) > 0

\* FilterStorage.__init__ up to the end of load_filters().  lines: the lines
\* of the list, each with its position; tie: which of several nearest points
\* the trees report.
load_filters(fs, lines, tie) ==
    Only({ IF r.raised # "" THEN [raised |-> r.raised, fs |-> fs]
           ELSE IF ~KDTree_accepts(r.fs.filter_arr)
                   \/ ~KDTree_accepts(r.fs.late_reverb_arr)
                   \/ ~KDTree_accepts(r.fs.directivity_arr)
           THEN [raised |-> "ValueError", fs |-> r.fs]
           ELSE [raised |-> "", fs |-> [r.fs EXCEPT !.loaded = TRUE, !.tie = tie]] :
           r \in { Only({ IF p.raised # "" THEN p ELSE load_lines(p.fs, lines, 1) :
                            p \in {parse_filter_list(fs, lines, 1)} }) } })

\* KDTree.query(find_me): the index of a point at the least Euclidean
\* distance (0-based in the source, 1-based here).
Dist2(p, q) == (p[1].n - q[1].n) * (p[1].n - q[1].n) + (p[2].n - q[2].n) * (p[2].n - q[2].n)
Nearest(arr, find_me) ==
    { i \in 1..Len(arr) : \A j \in 1..Len(arr) : Dist2(arr[i], find_me) <= Dist2(arr[j], find_me) }
Least(S) == CHOOSE x \in S : \A y \in S : x <= y
Greatest(S) == CHOOSE x \in S : \A y \in S : x >= y
KDTree_query(arr, tie, find_me) ==
    IF tie = "first" THEN Least(Nearest(arr, find_me)) ELSE Greatest(Nearest(arr, find_me))

Zeros7 == <<PyInt(0), PyInt(0), PyInt(0), PyInt(0), PyInt(0), PyInt(0), PyInt(0)>>

\* Variants of the lookups: one that takes the entry out of the map as it
\* returns it, one that indexes the map without the default.
get_late_reverb_filter_pop(fs, pose) ==
    LET i == KDTree_query(fs.late_reverb_arr, fs.tie, Orientation2(pose))
        fvl == [j \in 1..9 |-> PyInt((fs.late_reverb_arr[i] \o Zeros7)[j].n)]
        key == create_key(The(Pose_from_filterValueList(fvl).ret))
    IN  IF key \in DOMAIN fs.late_reverb_filter_dict
        THEN [raised |-> "", ret |-> Some(fs.late_reverb_filter_dict[key]),
              fs |-> [fs EXCEPT !.late_reverb_filter_dict =
                         [k \in (DOMAIN @) \ {key} |-> @[k]]]]
        ELSE [raised |-> "", ret |-> fs.default_late_reverb_filter, fs |-> fs]

get_directivity_filter_index(fs, pose) ==
    LET i == KDTree_query(fs.directivity_arr, fs.tie, Orientation2(pose))
        key == create_key(The(Pose_from_filterValueList(fs.directivity_arr[i] \o Zeros7).ret))
    IN  IF key \in DOMAIN fs.directivity_dict
        THEN [raised |-> "", ret |-> Some(fs.directivity_dict[key]), fs |-> fs]
        ELSE [raised |-> "KeyError", ret |-> None, fs |-> fs]

\* The lookups return the Filter and the store as the call leaves it.
get_filter(fs, pose) ==
    LET i == KDTree_query(fs.filter_arr, fs.tie, Orientation2(pose))
        newpose == The(Pose_from_filterValueList(fs.filter_arr[i] \o Zeros7).ret)
        key == create_key(newpose)
    IN  IF key \in DOMAIN fs.filter_dict
        THEN [raised |-> "", ret |-> Some(fs.filter_dict[key]), fs |-> fs]
        ELSE [raised |-> "", ret |-> fs.default_filter, fs |-> fs]

get_late_reverb_filter(fs, pose) ==
    LET i == KDTree_query(fs.late_reverb_arr, fs.tie, Orientation2(pose))
        fvl == [j \in 1..9 |-> PyInt((fs.late_reverb_arr[i] \o Zeros7)[j].n)]
        newpose == The(Pose_from_filterValueList(fvl).ret)
        key == create_key(newpose)
    IN  IF key \in DOMAIN fs.late_reverb_filter_dict
        THEN [raised |-> "", ret |-> Some(fs.late_reverb_filter_dict[key]), fs |-> fs]
        ELSE IF IsNone(fs.default_late_reverb_filter)
        THEN [raised |-> "AttributeError", ret |-> None, fs |-> fs]
        ELSE [raised |-> "", ret |-> fs.default_late_reverb_filter, fs |-> fs]

get_directivity_filter(fs, pose) ==
    LET i == KDTree_query(fs.directivity_arr, fs.tie, Orientation2(pose))
        newpose == The(Pose_from_filterValueList(fs.directivity_arr[i] \o Zeros7).ret)
        key == create_key(newpose)
    IN  IF key \in DOMAIN fs.directivity_dict
        THEN [raised |-> "", ret |-> Some(fs.directivity_dict[key]), fs |-> fs]
        ELSE [raised |-> "", ret |-> fs.default_directivity_filter, fs |-> fs]

get_headphone_filter(fs) ==
    IF IsNone(fs.headphone_filter)
    THEN [raised |-> "RuntimeError", ret |-> None]
    ELSE [raised |-> "", ret |-> fs.headphone_filter]

\* FilterStorage(irSize, block_size, filter_list_name, useHeadphoneFilter,
\* headphoneFilterSize, useSplittedFilters, lateReverbSize, directivitySize).
FilterStorage_init(irSize, bs, lines, useHeadphoneFilter, headphoneFilterSize, useSplittedFilters, lateReverbSize, directivitySize, tie) ==
    load_filters(FilterStorage_fields(irSize, bs, useHeadphoneFilter, headphoneFilterSize,
                                      useSplittedFilters, lateReverbSize, directivitySize),
                 lines, tie)

\* ------------------------------------------------ one convolver, driven alone

\* Prepared filters handed to the convolver.
FilterA == PreparedFilter(1, Delta(EarlySize, 1, 1), Delta(EarlySize, EarlySize, 1),
                          IRBlocks, block_size)
FilterB == PreparedFilter(2, Delta(EarlySize, 2, 2), Delta(EarlySize, block_size + 1, 1),
                          IRBlocks, block_size)
FilterLate == PreparedFilter(3, Delta(LateSize, 1, 1), Delta(LateSize, LateSize, 1),
                             1, block_size)
FilterLate2 == PreparedFilter(5, Delta(LateSize, LateSize, 2), Delta(LateSize, 1, 0 - 1),
                              1, block_size)
LateFilters == {FilterLate, FilterLate2}
\* A directivity filter whose spectra are all ones: a unit impulse per block.
FilterUnit == PreparedFilter(4,
                 [i \in 1..EarlySize |-> IF i % block_size = 1 THEN 1 ELSE 0],
                 [i \in 1..EarlySize |-> IF i % block_size = 1 THEN 1 ELSE 0],
                 IRBlocks, block_size)
EarlyFilters == {FilterA, FilterB}
Blocks == { Delta(block_size, 1, 1), Zeros(block_size) }
FilterByOid(oid) == CHOOSE f \in EarlyFilters \cup LateFilters \cup {FilterUnit} : f.oid = oid

\* rendered: the pair TF_left_blocked, TF_right_blocked at the end of the last
\* process(); old: the same at the end of the process() before it; xfaded:
\* the last process() took the crossfade branch; sets: successful set calls
\* since the last process() (2 stands for two or more), and how many there
\* were before the last process() (setsBefore); lastSet: the last successful set call before the
\* last process(); lastInterp: the do_interpolation of the last successful
\* set call since the last process(), None if there was none; late: the oid
\* of the filter of the last successful setLateReverb (0: none).
ConvHist0 ==
    [ rendered |-> None, old |-> None, xfaded |-> FALSE,
      sets |-> 0, setsBefore |-> 0, lastSet |-> "none",
      lastInterp |-> None, late |-> 0 ]

\* filter: the oid of the filter passed.
NoConvCall ==
    [ op |-> "none", raised |-> "", filter |-> 0, interp |-> FALSE,
      dist |-> 1, dirAbsent |-> FALSE ]

InitConv ==
    /\ \E split \in BOOLEAN :
          convolvers = [c \in {0} |->
              ConvolverFFTW_init(EarlySize, block_size, FALSE, split, LateSize)]
    /\ poseParser = None
    /\ convolverHP = None
    /\ filterStorage = None
    /\ engine = None
    /\ call = NoConvCall
    /\ hist = ConvHist0

ConvFrame == UNCHANGED <<poseParser, convolverHP, filterStorage, engine>>

\* The calls made: setIR(f, ip) as the engine makes it, and setIR with a
\* distance and a directivity filter.
SetIRArgs ==
    { [f |-> f, dist |-> 1, dir |-> None] : f \in EarlyFilters }
    \cup { [f |-> FilterA, dist |-> 1, dir |-> Some(FilterUnit)],
           [f |-> FilterB, dist |-> 2, dir |-> Some(FilterUnit)] }

call_setIR ==
    /\ convolvers[0].processCounter < MaxProcess
    /\ \E ip \in BOOLEAN, a \in SetIRArgs :
        LET r == setIR(convolvers[0], a.f, ip, a.dist, a.dir)
        IN  /\ convolvers' = [convolvers EXCEPT ![0] = r.conv]
            /\ call' = [op |-> "setIR", raised |-> r.raised, filter |-> a.f.oid,
                        interp |-> ip, dist |-> a.dist, dirAbsent |-> IsNone(a.dir)]
            /\ hist' = IF r.raised = ""
                       THEN [hist EXCEPT !.sets = IF @ = 0 THEN 1 ELSE 2, !.lastSet = "setIR",
                                         !.lastInterp = Some(ip)]
                       ELSE hist
            /\ ConvFrame

call_setLateReverb ==
    /\ convolvers[0].processCounter < MaxProcess
    /\ \E ip \in BOOLEAN, f \in LateFilters :
        LET r == setLateReverb(convolvers[0], f, ip)
        IN  /\ convolvers' = [convolvers EXCEPT ![0] = r.conv]
            /\ call' = [op |-> "setLateReverb", raised |-> r.raised,
                        filter |-> f.oid, interp |-> ip, dist |-> 1,
                        dirAbsent |-> FALSE]
            /\ hist' = IF r.raised = ""
                       THEN [hist EXCEPT !.sets = IF @ = 0 THEN 1 ELSE 2,
                                         !.lastSet = "setLateReverb",
                                         !.lastInterp = Some(ip), !.late = f.oid]
                       ELSE hist
            /\ ConvFrame

\* The blocks fed to the convolver driven alone.
ConvBlocks == { Delta(block_size, 1, 1) }

call_process ==
    /\ convolvers[0].processCounter < MaxProcess
    /\ \E b \in ConvBlocks :
        LET c == process(convolvers[0], b)
        IN  /\ convolvers' = [convolvers EXCEPT ![0] = c]
            /\ call' = [op |-> "process", raised |-> "", filter |-> 0,
                        interp |-> FALSE, dist |-> 1, dirAbsent |-> FALSE]
            /\ hist' = [ rendered |-> Some(<<c.TF_left_blocked, c.TF_right_blocked>>),
                         old |-> hist.rendered,
                         xfaded |-> convolvers[0].interpolate,
                         sets |-> 0, setsBefore |-> hist.sets,
                         lastSet |-> hist.lastSet,
                         lastInterp |-> None, late |-> hist.late ]
            /\ ConvFrame

\* process_nothing(): the counter goes up by one, nothing is rendered.
process_nothing(conv) == [conv EXCEPT !.processCounter = @ + 1]

call_process_nothing ==
    /\ convolvers[0].processCounter < MaxProcess
    /\ convolvers' = [convolvers EXCEPT ![0] = process_nothing(@)]
    /\ call' = [op |-> "process_nothing", raised |-> "", filter |-> 0,
                interp |-> FALSE, dist |-> 1, dirAbsent |-> FALSE]
    /\ UNCHANGED hist
    /\ ConvFrame

NextConv ==
    \/ call_setIR
    \/ call_setLateReverb
    \/ call_process
    \/ call_process_nothing

SpecConv == InitConv /\ [][NextConv]_vars

FrontRows(a, t) == SubSeq(a, 1, t)

\* C1: setIR(filter, do_interpolation) without a distance and without a
\* directivity filter completes without raising and leaves the filter's
\* spectra, unscaled, in the front rows of TF_left_blocked / TF_right_blocked.
C1_SetIRDefaults ==
    (call.op = "setIR" /\ call.dirAbsent /\ call.dist = 1) =>
        /\ call.raised = ""
        /\ FrontRows(convolvers[0].TF_left_blocked, convolvers[0].late_early_transition)
             = getFilterFD(FilterByOid(call.filter)).left
        /\ FrontRows(convolvers[0].TF_right_blocked, convolvers[0].late_early_transition)
             = getFilterFD(FilterByOid(call.filter)).right

\* C2: when the only set call between two process() calls is
\* setIR(f_new, True) and it changes the filter, the second process() fades
\* out the rendering with the filter of the first process() and fades in the
\* rendering with the new one: the first output sample is the old filter's,
\* the last the new filter's.
C2_CrossfadeOldToNew ==
    LET c == convolvers[0]
        bs == c.block_size
    IN  (call.op = "process" /\ hist.xfaded /\ hist.setsBefore = 1
           /\ hist.lastSet = "setIR"
           /\ ~IsNone(hist.old) /\ hist.old # hist.rendered) =>
        /\ c.TF_left_blocked_previous = The(hist.old)[1]
        /\ c.TF_right_blocked_previous = The(hist.old)[2]
        /\ c.outputLeft[1] = WScale * Render(The(hist.old)[1], c.FDL_left, bs)[1]
        /\ c.outputRight[1] = WScale * Render(The(hist.old)[2], c.FDL_right, bs)[1]
        /\ c.outputLeft[bs] = WScale * Render(c.TF_left_blocked, c.FDL_left, bs)[bs]
        /\ c.outputRight[bs] = WScale * Render(c.TF_right_blocked, c.FDL_right, bs)[bs]

\* ------------------------------------------------ the store, driven alone
Nine(az, el, aux) == <<az, el, aux, 0, 0, 0, 0, 0, 0>>
MasterList ==
    << Line("HPFILTER", << >>, "hp.wav"),
       Line("FILTER", Nine(0, 0, 0), "a.wav"),
       Line("FILTER", Nine(30, 0, 0), "b.wav"),
       Line("FILTER", Nine(30, 10, 1), "b.wav"),
       Line("LATEREVERB", Nine(0, 0, 0), "late.wav"),
       Line("DIRECTIVITY", Nine(0, 0, 0), "dir.wav") >>

\* The lines of MasterList at the positions in S, in order, each with its
\* position.
RECURSIVE Pick(_, _)
Pick(S, k) ==
    IF k > Len(MasterList) THEN << >>
    ELSE (IF k \in S THEN << [line |-> MasterList[k], at |-> k] >> ELSE << >>) \o Pick(S, k + 1)
FilterLists == { Pick(S, 1) : S \in SUBSET (1..Len(MasterList)) }

DirSizes == {DirSize, LateSize}
Ties == {"first", "last"}
QueryPose(az, el) == [i \in 1..9 |-> PyInt(IF i = 1 THEN az ELSE IF i = 2 THEN el ELSE 0)]
Queries == { QueryPose(14, 0), QueryPose(30, 0), QueryPose(30, 5), QueryPose(30, 10) }

NoStoreCall == [op |-> "none", raised |-> "", ret |-> None, pose |-> None]
StoreCall(op, r, pose) == [op |-> op, raised |-> r.raised, ret |-> r.ret, pose |-> Some(pose)]

InitStore ==
    \E lines \in FilterLists, useHP \in BOOLEAN, useSplit \in BOOLEAN,
       dirSize \in DirSizes, tie \in Ties :
        \E r \in {FilterStorage_init(EarlySize, block_size, lines, useHP, EarlySize,
                                      useSplit, LateSize, dirSize, tie)} :
            /\ (r.raised # "" => tie = "first")
            /\ filterStorage = IF r.raised = "" THEN Some(r.fs) ELSE None
            /\ convolvers = [c \in {0} |->
                               ConvolverFFTW_init(EarlySize, block_size, FALSE, useSplit, LateSize)]
            /\ call = [NoStoreCall EXCEPT !.op = "FilterStorage", !.raised = r.raised]
            /\ hist = [lines |-> lines, loaded |-> filterStorage]
            /\ poseParser = None
            /\ convolverHP = None
            /\ engine = None

StoreFrame == UNCHANGED <<poseParser, convolverHP, engine, hist>>

call_get_filter ==
    /\ ~IsNone(filterStorage)
    /\ \E pose \in Queries :
        LET r == get_filter(The(filterStorage), pose)
        IN  /\ filterStorage' = Some(r.fs)
            /\ call' = StoreCall("get_filter", r, pose)
    /\ UNCHANGED convolvers
    /\ StoreFrame

call_get_late_reverb_filter ==
    /\ ~IsNone(filterStorage)
    /\ \E pose \in Queries :
        LET r == get_late_reverb_filter(The(filterStorage), pose)
        IN  /\ filterStorage' = Some(r.fs)
            /\ call' = StoreCall("get_late_reverb_filter", r, pose)
    /\ UNCHANGED convolvers
    /\ StoreFrame

call_get_directivity_filter ==
    /\ ~IsNone(filterStorage)
    /\ \E pose \in Queries :
        LET r == get_directivity_filter(The(filterStorage), pose)
        IN  /\ filterStorage' = Some(r.fs)
            /\ call' = StoreCall("get_directivity_filter", r, pose)
    /\ UNCHANGED convolvers
    /\ StoreFrame

call_get_headphone_filter ==
    /\ ~IsNone(filterStorage)
    /\ call' = [NoStoreCall EXCEPT !.op = "get_headphone_filter",
                                   !.raised = get_headphone_filter(The(filterStorage)).raised,
                                   !.ret = get_headphone_filter(The(filterStorage)).ret]
    /\ UNCHANGED <<filterStorage, convolvers>>
    /\ StoreFrame

\* A convolver is given the filters the store returns for a pose, as the
\* engine gives them, and renders a block.
use_setIR ==
    /\ ~IsNone(filterStorage)
    /\ convolvers[0].processCounter < MaxProcess
    /\ \E pose \in Queries, ip \in BOOLEAN :
        LET f == get_filter(The(filterStorage), pose)
            d == get_directivity_filter(f.fs, pose)
            r == setIR(convolvers[0], The(f.ret), ip, 2, d.ret)
        IN  /\ filterStorage' = Some(d.fs)
            /\ convolvers' = [convolvers EXCEPT ![0] = r.conv]
            /\ call' = [NoStoreCall EXCEPT !.op = "setIR", !.raised = r.raised]
    /\ StoreFrame

use_setLateReverb ==
    /\ ~IsNone(filterStorage)
    /\ convolvers[0].processCounter < MaxProcess
    /\ \E pose \in Queries, ip \in BOOLEAN :
        LET f == get_late_reverb_filter(The(filterStorage), pose)
            r == setLateReverb(convolvers[0], The(f.ret), ip)
        IN  /\ filterStorage' = Some(f.fs)
            /\ convolvers' = [convolvers EXCEPT ![0] = r.conv]
            /\ call' = [NoStoreCall EXCEPT !.op = "setLateReverb", !.raised = r.raised]
    /\ StoreFrame

use_process ==
    /\ ~IsNone(filterStorage)
    /\ convolvers[0].processCounter < MaxProcess
    /\ convolvers' = [convolvers EXCEPT ![0] = process(@, Delta(block_size, 1, 1))]
    /\ call' = [NoStoreCall EXCEPT !.op = "process"]
    /\ UNCHANGED filterStorage
    /\ StoreFrame

NextStore ==
    \/ call_get_filter
    \/ call_get_late_reverb_filter
    \/ call_get_directivity_filter
    \/ call_get_headphone_filter
    \/ use_setIR
    \/ use_setLateReverb
    \/ use_process

SpecStore == InitStore /\ [][NextStore]_vars

Lookups == {"get_filter", "get_late_reverb_filter", "get_directivity_filter"}
Directional == { k \in 1..Len(hist.lines) : hist.lines[k].line.tok = "FILTER" }
EntryCoord(k) == <<hist.lines[k].line.fields[1], hist.lines[k].line.fields[2]>>
QueryCoord == <<The(call.pose)[1].n, The(call.pose)[2].n>>
SqDist(a, b) == (a[1] - b[1]) * (a[1] - b[1]) + (a[2] - b[2]) * (a[2] - b[2])

\* C7: get_filter returns a Filter loaded from a directional entry of the
\* list whose (azimuth, elevation) is at the least Euclidean distance from the
\* query's, whatever the entry's auxiliary fields are.
C7_NearestLoaded ==
    (~IsNone(filterStorage) /\ call.op = "get_filter") =>
        /\ call.raised = ""
        /\ ~IsNone(call.ret)
        /\ \E k \in Directional :
              /\ \A j \in Directional :
                    SqDist(EntryCoord(k), QueryCoord) <= SqDist(EntryCoord(j), QueryCoord)
              /\ The(call.ret).oid = hist.lines[k].at

\* The population a lookup serves: its map, its coordinate list, its default.
PopulationOf(fs, op) ==
    IF op = "get_filter"
    THEN [dict |-> fs.filter_dict, arr |-> fs.filter_arr, default |-> fs.default_filter]
    ELSE IF op = "get_late_reverb_filter"
    THEN [dict |-> fs.late_reverb_filter_dict, arr |-> fs.late_reverb_arr,
          default |-> fs.default_late_reverb_filter]
    ELSE [dict |-> fs.directivity_dict, arr |-> fs.directivity_arr,
          default |-> fs.default_directivity_filter]

\* The key a lookup rebuilds from the matched coordinate and seven zeros.
RebuiltKey(fs, op, pose) ==
    LET pop == PopulationOf(fs, op)
        xy == pop.arr[KDTree_query(pop.arr, fs.tie, Orientation2(pose))]
    IN  IF op = "get_late_reverb_filter"
        THEN create_key([j \in 1..9 |-> PyInt((xy \o Zeros7)[j].n)])
        ELSE create_key(xy \o Zeros7)

IsZeroFilter(f) ==
    /\ f.fd_available
    /\ getFilterFD(f).left = ZeroRows(f.ir_blocks, 2 * f.block_size)
    /\ getFilterFD(f).right = ZeroRows(f.ir_blocks, 2 * f.block_size)

\* C8: once the store is constructed, each of the three lookups returns a
\* prepared Filter for every pose without raising, and returns the
\* population's default all-zero filter when the rebuilt key is not in the
\* population's map.
C8_QueryNeverRaises ==
    (~IsNone(filterStorage) /\ call.op \in Lookups) =>
        LET fs == The(filterStorage)
            pop == PopulationOf(fs, call.op)
        IN  /\ call.raised = ""
            /\ ~IsNone(call.ret)
            /\ The(call.ret).fd_available
            /\ (RebuiltKey(fs, call.op, The(call.pose)) \notin DOMAIN pop.dict =>
                   call.ret = pop.default /\ IsZeroFilter(The(call.ret)))

C8_Witness ==
    /\ ~IsNone(filterStorage)
    /\ call.op = "get_directivity_filter"
    /\ call.raised = ""
    /\ RebuiltKey(The(filterStorage), call.op, The(call.pose))
          \notin DOMAIN The(filterStorage).directivity_dict
    /\ call.ret = The(filterStorage).default_directivity_filter

LookupOn(fs, op, pose) ==
    IF op = "get_filter" THEN get_filter(fs, pose)
    ELSE IF op = "get_late_reverb_filter" THEN get_late_reverb_filter(fs, pose)
    ELSE get_directivity_filter(fs, pose)

\* C9: after loading, whatever lookups, setIR, setLateReverb and process
\* calls have been made, the store (its three maps, its coordinate lists and
\* every stored Filter's spectra) is as it was loaded, and a lookup returns
\* the Filter that the same lookup returns on the store as loaded.
C9_LookupPure ==
    ~IsNone(filterStorage) =>
        /\ filterStorage = hist.loaded
        /\ (call.op \in Lookups =>
               call.ret = LookupOn(The(hist.loaded), call.op, The(call.pose)).ret)

C9_Witness ==
    /\ ~IsNone(filterStorage)
    /\ call.op = "get_late_reverb_filter"
    /\ ~IsNone(call.ret)
    /\ The(call.ret).oid > 0
    /\ convolvers[0].processCounter = MaxProcess
    /\ convolvers[0].TF_left_blocked # ZeroRows(Len(convolvers[0].TF_left_blocked),
                                                2 * block_size)

\* ----------------------------------------------------------------- BinSim
\* The configuration (BinSimConfig) and the arguments that reach the
\* FilterStorage constructor: initialize_pybinsim passes irSize, block_size
\* and the list only, so the others take the constructor's defaults.
StoreDefaults ==
    [ useHeadphoneFilter |-> FALSE, headphoneFilterSize |-> 0,
      useSplittedFilters |-> FALSE, lateReverbSize |-> 0, directivitySize |-> 0 ]

\* A convolver of the engine: ConvolverFFTW(filterSize, blockSize, stereo).
EngineConvolver(cfg, stereo) ==
    ConvolverFFTW_init(cfg.filterSize, cfg.blockSize, stereo, FALSE, 0)

\* np.empty: a buffer with whatever the memory held.
Garbage == {0, 7}
Empty(n, garbage) == [i \in 1..n |-> garbage]

\* BinSim.__init__ with initialize_pybinsim: the store, the convolvers, the
\* headphone convolver with its filter, then the pose parser.
initialize_pybinsim(cfg, tie, garbage) ==
    LET st0 == [ engine |-> [ phase |-> "failed", cfg |-> cfg,
                              block |-> Empty(cfg.blockSize, garbage),
                              result |-> [left |-> Empty(cfg.blockSize, garbage),
                                          right |-> Empty(cfg.blockSize, garbage)],
                              warned |-> FALSE, replies |-> 0 ],
                 poseParser |-> None, convolvers |-> << >>, convolverHP |-> None,
                 filterStorage |-> None ]
        convs == [n \in 0..(cfg.maxChannels - 1) |-> EngineConvolver(cfg, FALSE)]
    IN  Only({
          LET hp == get_headphone_filter(fs.fs)
              set == setIR(EngineConvolver(cfg, TRUE), The(hp.ret), FALSE, 1, None)
              done == [st0 EXCEPT !.engine.phase = "serving",
                                  !.poseParser = InlinePoseParser_init(cfg.maxChannels),
                                  !.convolvers = convs,
                                  !.filterStorage = Some(fs.fs)]
          IN  IF fs.raised # "" THEN [raised |-> fs.raised, st |-> st0]
              ELSE IF ~cfg.useHeadphoneFilter THEN [raised |-> "", st |-> done]
              ELSE IF hp.raised # "" THEN [raised |-> hp.raised, st |-> st0]
              ELSE IF set.raised # "" THEN [raised |-> set.raised, st |-> st0]
              ELSE [raised |-> "", st |-> [done EXCEPT !.convolverHP = Some(set.conv)]] :
          fs \in {FilterStorage_init(cfg.filterSize, cfg.blockSize, cfg.filterList,
                                     StoreDefaults.useHeadphoneFilter,
                                     StoreDefaults.headphoneFilterSize,
                                     StoreDefaults.useSplittedFilters,
                                     StoreDefaults.lateReverbSize,
                                     StoreDefaults.directivitySize, tie)} })

\* A request: the float32 values of the frame and the bytes left over after
\* the last whole value.
Frame(floats, tail) == [floats |-> floats, tail |-> tail]
\* stereo_audio_in[row, col] for 0-based row and col.
At(msg, row, col) == msg.floats[2 * row + col + 1]
WellSized(msg, bs) == msg.tail = 0 /\ Len(msg.floats) = 2 * bs

\* process_block, lines 227-231: the pose is fetched, the filter looked up
\* and handed to the channel's convolver.
update_filter(st, convChannel) ==
    Only({ Only({ Only({
        IF set.raised # ""
        THEN [raised |-> set.raised,
              st |-> [st EXCEPT !.poseParser = cur.pp, !.filterStorage = Some(got.fs)]]
        ELSE [raised |-> "",
              st |-> [st EXCEPT !.poseParser = cur.pp, !.filterStorage = Some(got.fs),
                                !.convolvers[PyNorm(convChannel, st.engine.cfg.maxChannels)] = set.conv]] :
        set \in {setIR(st.convolvers[PyNorm(convChannel, st.engine.cfg.maxChannels)], The(got.ret),
                       st.engine.cfg.enableCrossfading, 1, None)} }) :
        got \in {get_filter(The(st.filterStorage),
                            The(Pose_from_filterValueList(
                                    [i \in 1..9 |-> PyInt(The(cur.ret)[i])]).ret))} }) :
        cur \in {get_current_values(st.poseParser, convChannel)} })

ScaleBy(x, factor) == [i \in 1..Len(x) |-> x[i] * factor]

\* The value 1.0 in the units the result is held in: the output of one
\* convolver is in units of 1/WScale, the output of two in a row in units
\* of 1/WScale^2.
ResultUnit(cfg) == IF cfg.useHeadphoneFilter THEN WScale * WScale ELSE WScale
Abs(v) == IF v < 0 THEN 0 - v ELSE v
\* np.max(np.abs(self.result)) > 1
ClippingOccurred(result, unit) ==
    \E i \in 1..Len(result.left) : Abs(result.left[i]) > unit \/ Abs(result.right[i]) > unit
\* Lines 239-244: the result is scaled and the clipping warning logged;
\* warned: the warning was logged by the last process_block.
scale_result(st, outLeft, outRight) ==
    Only({ [st EXCEPT !.engine.result = res,
                      !.engine.warned = ClippingOccurred(res, ResultUnit(st.engine.cfg))] :
           res \in {[left |-> ScaleBy(outLeft, st.engine.cfg.loudnessFactor),
                     right |-> ScaleBy(outRight, st.engine.cfg.loudnessFactor)]} })

\* process_block, lines 233-244: the channel's convolver renders the block,
\* the headphone convolver, if any, renders the result, and the result is
\* multiplied by loudnessFactor.
render_block(st, convChannel) ==
    Only({
        IF ~st.engine.cfg.useHeadphoneFilter
        THEN scale_result(
                 [st EXCEPT !.convolvers[PyNorm(convChannel, st.engine.cfg.maxChannels)] = conv],
                 conv.outputLeft, conv.outputRight)
        ELSE Only({
            scale_result(
                [st EXCEPT !.convolvers[PyNorm(convChannel, st.engine.cfg.maxChannels)] = conv,
                           !.convolverHP = Some(hpc)],
                hpc.outputLeft, hpc.outputRight) :
            hpc \in {process(The(st.convolverHP),
                             [left |-> conv.outputLeft, right |-> conv.outputRight])} }) :
        conv \in {process(st.convolvers[PyNorm(convChannel, st.engine.cfg.maxChannels)],
                          st.engine.block)} })

process_block(st, convChannel) ==
    Only({
        IF nec.raised # "" THEN [raised |-> nec.raised, st |-> st]
        ELSE IF ~The(nec.ret) THEN [raised |-> "", st |-> render_block(st, convChannel)]
        ELSE Only({ IF u.raised # "" THEN u
                    ELSE [raised |-> "", st |-> render_block(u.st, convChannel)] :
                    u \in {update_filter(st, convChannel)} }) :
        nec \in {is_filter_update_necessary(st.poseParser, convChannel)} })

\* One turn of the loop of run_server with a request waiting: the frame is
\* viewed as blockSize rows of two values, the audio column is copied into
\* the block, the second column gives channel, azimuth and elevation, the
\* block is processed and the result sent.
run_server_receive(st, msg) ==
    IF ~WellSized(msg, st.engine.cfg.blockSize) THEN [raised |-> "ValueError", st |-> st]
    ELSE Only({
        IF st.engine.cfg.blockSize < 3 THEN [raised |-> "IndexError", st |-> st1]
        ELSE Only({
            IF parsed.raised # ""
            THEN [raised |-> parsed.raised, st |-> [st1 EXCEPT !.poseParser = parsed.pp]]
            ELSE Only({
                IF done.raised # "" THEN done
                ELSE [raised |-> "", st |-> [done.st EXCEPT !.engine.replies = @ + 1]] :
                done \in {process_block([st1 EXCEPT !.poseParser = parsed.pp],
                                        At(msg, 0, 1))} }) :
            parsed \in {parse_pose_input(st1.poseParser, At(msg, 0, 1), At(msg, 1, 1),
                                         At(msg, 2, 1))} }) :
        st1 \in {[st EXCEPT !.engine.block =
                     [i \in 1..st.engine.cfg.blockSize |-> At(msg, i - 1, 0)]]} })

\* ------------------------------------------------------ the engine, driven
Config(lines, xf, hp, lf) ==
    [ blockSize |-> block_size, filterSize |-> EarlySize, filterList |-> lines,
      enableCrossfading |-> xf, useHeadphoneFilter |-> hp, loudnessFactor |-> lf,
      maxChannels |-> maxChannels ]
Configs == { Config(lines, xf, hp, 1) : lines \in FilterLists, xf \in BOOLEAN, hp \in BOOLEAN }

NoEngineCall == [op |-> "none", raised |-> ""]

\* Nothing is constructed yet.
Init ==
    /\ engine = None
    /\ poseParser = None
    /\ convolvers = << >>
    /\ convolverHP = None
    /\ filterStorage = None
    /\ call = NoEngineCall
    /\ hist = None

\* BinSim(config_file): the program is started with a configuration.  When
\* the constructor raises there is no engine and run_server is never entered.
call_BinSim ==
    /\ \E cfg \in Configs, garbage \in Garbage :
        \E r \in {initialize_pybinsim(cfg, "first", garbage)} :
            /\ engine' = r.st.engine
            /\ poseParser' = r.st.poseParser
            /\ convolvers' = r.st.convolvers
            /\ convolverHP' = r.st.convolverHP
            /\ filterStorage' = r.st.filterStorage
            /\ call' = [NoEngineCall EXCEPT !.op = "BinSim", !.raised = r.raised]
    /\ UNCHANGED hist

Next ==
    \/ call_BinSim

Spec == Init /\ [][Next]_vars

\* A configuration the engine is meant to run: its list loads in a store
\* that is given the sizes and switches of the configuration.
Loadable(cfg) ==
    FilterStorage_init(cfg.filterSize, cfg.blockSize, cfg.filterList,
                       cfg.useHeadphoneFilter, EarlySize, TRUE, LateSize, DirSize,
                       "first").raised = ""
Started == call.op = "BinSim" /\ Loadable(engine.cfg)
Serving == call.raised = "" /\ engine.phase = "serving"

HasHPLine(lines) == \E k \in 1..Len(lines) : lines[k].line.tok = "HPFILTER"

\* C10: with useHeadphoneFilter set and an HPFILTER line in a list that
\* loads, the engine is constructed, the line's filter is in the store and
\* the headphone convolver holds it before the first request.
C10_HeadphoneInstalled ==
    (Started /\ engine.cfg.useHeadphoneFilter /\ HasHPLine(engine.cfg.filterList)) =>
        /\ Serving
        /\ ~IsNone(filterStorage)
        /\ ~IsNone(The(filterStorage).headphone_filter)
        /\ ~IsNone(convolverHP)
        /\ The(convolverHP).TF_left_blocked
              = getFilterFD(The(The(filterStorage).headphone_filter)).left

\* ------------------------------------------- loading, driven on its own
\* A store is constructed from a list of three good lines followed by one
\* line under test; load_filter and the Filter constructor are then called
\* directly.
MaxSamples == 7

BaseList ==
    << Line("FILTER", Nine(0, 0, 0), "a.wav"),
       Line("LATEREVERB", Nine(0, 0, 0), "late.wav"),
       Line("DIRECTIVITY", Nine(0, 0, 0), "dir.wav") >>
TestLines ==
    { Line("FILTER", Nine(60, 0, 0), "b.wav"),
      Line("60", Nine(60, 0, 0), "b.wav"),
      Line("FILTERS", Nine(60, 0, 0), "b.wav"),
      Line("BRIR", Nine(60, 0, 0), "b.wav"),
      Line("#FILTER", Nine(60, 0, 0), "b.wav"),
      Line("", << >>, ""),
      Line("FILTER", Nine(60, 0, 0), "short.wav"),
      Line("FILTER", Nine(60, 0, 0), "long.wav"),
      Line("LATEREVERB", Nine(30, 0, 0), "late.wav"),
      Line("LATEREVERB", Nine(30, 0, 0), "short.wav"),
      Line("LATEREVERB", Nine(30, 0, 0), "long.wav"),
      Line("DIRECTIVITY", Nine(30, 0, 0), "dir.wav"),
      Line("HPFILTER", << >>, "hp.wav"),
      Line("HPFILTERS", << >>, "hp.wav") }
TestAt == Len(BaseList) + 1
ListWith(test) == [k \in 1..TestAt |-> [line |-> IF k = TestAt THEN test ELSE BaseList[k], at |-> k]]

FilterTypes == {"Filter", "LateReverbFilter", "Directivity"}
Ramp(S) == [i \in 1..S |-> i]
RampDown(S) == [i \in 1..S |-> S + 1 - i]

\* ret: what the call returned, or the Filter the call was made on; spectra:
\* what getFilterFD returned; plan: the plan storeInFDomain was last called
\* with, as that call left it; fades: the fades applied to the Filter.
NoLoadCall ==
    [ op |-> "none", raised |-> "", ret |-> None, path |-> "", type |-> "", S |-> 0,
      spectra |-> None, plan |-> None, fades |-> 0 ]
FilterOps == {"Filter", "storeInFDomain", "getFilterFD", "apply_fadein", "apply_fadeout"}

InitLoad ==
    \E test \in TestLines, useHP \in BOOLEAN, useSplit \in BOOLEAN, dirSize \in DirSizes :
        \E r \in {FilterStorage_init(EarlySize, block_size, ListWith(test), useHP, EarlySize,
                                      useSplit, LateSize, dirSize, "first")} :
            /\ filterStorage = IF r.raised = "" THEN Some(r.fs) ELSE None
            /\ call = [NoLoadCall EXCEPT !.op = "FilterStorage", !.raised = r.raised]
            /\ hist = [test |-> test, useHP |-> useHP, useSplit |-> useSplit]
            /\ convolvers = << >>
            /\ poseParser = None
            /\ convolverHP = None
            /\ engine = None

LoadFrame == UNCHANGED <<poseParser, convolvers, convolverHP, engine, filterStorage, hist>>

\* FilterStorage.load_filter(filter_path, filter_type) on the constructed store.
call_load_filter ==
    /\ ~IsNone(filterStorage)
    /\ \E path \in DOMAIN Files, type \in FilterTypes :
        \E r \in {load_filter(The(filterStorage), path, type)} :
            call' = [NoLoadCall EXCEPT !.op = "load_filter", !.raised = r.raised,
                                       !.ret = r.ret, !.path = path, !.type = type]
    /\ LoadFrame

\* Filter(inputfilter, irBlocks, block_size) on S stereo samples, with the
\* block count FilterStorage.__init__ computes for a size S.
call_Filter ==
    /\ \E S \in 0..MaxSamples :
        \E r \in {Filter_init(0, Data(Ramp(S), RampDown(S), 2), S \div block_size, block_size)} :
            call' = [NoLoadCall EXCEPT !.op = "Filter", !.raised = r.raised,
                                       !.ret = r.ret, !.S = S, !.plan = call.plan]
    /\ LoadFrame

\* The plans storeInFDomain is called with: a new plan built for one row,
\* for the Filter's rows or for one row more, or the plan of the call before.
PlansFor(f, kept) ==
    { fftw_plan(rows, block_size) : rows \in {1, f.ir_blocks, f.ir_blocks + 1} }
        \cup (IF IsNone(kept) THEN {} ELSE {The(kept)})

\* storeInFDomain(plan) on the Filter made last.
call_storeInFDomain ==
    /\ call.op \in FilterOps
    /\ ~IsNone(call.ret)
    /\ \E plan \in PlansFor(The(call.ret), call.plan) :
        \E r \in {storeInFDomain(The(call.ret), plan)} :
            call' = [call EXCEPT !.op = "storeInFDomain", !.raised = r.raised,
                                 !.ret = Some(r.f), !.spectra = None,
                                 !.plan = Some(r.plan)]
    /\ LoadFrame

\* getFilterFD() on the Filter made last; it has no raise.
call_getFilterFD ==
    /\ call.op \in FilterOps
    /\ ~IsNone(call.ret)
    /\ call' = [call EXCEPT !.op = "getFilterFD", !.raised = "",
                            !.spectra = Some(getFilterFD(The(call.ret)))]
    /\ LoadFrame

\* The windows a fade is called with: one of block_size elements, one of a
\* single element, one that is an element too long.
MaxFades == 2
FadeWindow == [i \in 1..block_size |-> IF i = 1 THEN 2 ELSE IF i = 2 THEN 0 ELSE 1]
Windows == { FadeWindow, <<3>>, Ramp(block_size + 1) }

\* apply_fadein(window) on the Filter made last.
call_apply_fadein ==
    /\ call.op \in FilterOps
    /\ ~IsNone(call.ret)
    /\ call.fades < MaxFades
    /\ \E window \in Windows :
        \E r \in {apply_fadein(The(call.ret), window)} :
            call' = [call EXCEPT !.op = "apply_fadein", !.raised = r.raised,
                                 !.ret = Some(r.f), !.spectra = None,
                                 !.fades = @ + 1]
    /\ LoadFrame

\* apply_fadeout(window) on the Filter made last.
call_apply_fadeout ==
    /\ call.op \in FilterOps
    /\ ~IsNone(call.ret)
    /\ call.fades < MaxFades
    /\ \E window \in Windows :
        \E r \in {apply_fadeout(The(call.ret), window)} :
            call' = [call EXCEPT !.op = "apply_fadeout", !.raised = r.raised,
                                 !.ret = Some(r.f), !.spectra = None,
                                 !.fades = @ + 1]
    /\ LoadFrame

NextLoad ==
    \/ call_load_filter
    \/ call_Filter
    \/ call_storeInFDomain
    \/ call_getFilterFD
    \/ call_apply_fadein
    \/ call_apply_fadeout

SpecLoad == InitLoad /\ [][NextLoad]_vars

\* The target size of a population, as the store holds it.
TargetSize(fs, type) ==
    IF type = "Filter" THEN fs.ir_size
    ELSE IF type = "LateReverbFilter" THEN fs.lateReverbSize
    ELSE fs.directivitySize

\* The files a list entry of a population names: two-channel files for the
\* directional and late-reverb filters, one-channel files for directivities.
FitsPopulation(path, type) ==
    Files[path].channels = (IF type = "Directivity" THEN 1 ELSE 2)

\* C11: whatever the length of the file, load_filter returns exactly the
\* population's target number of samples for each population: a shorter
\* impulse response comes back zero-padded to the target, a longer one
\* truncated to it, and the call does not raise.
C11_LoadFilterLength ==
    (call.op = "load_filter" /\ FitsPopulation(call.path, call.type)) =>
        /\ call.raised = ""
        /\ \E n \in {TargetSize(The(filterStorage), call.type)} :
            /\ The(call.ret).left = CutTo(PadTo(Files[call.path].left, n), n)
            /\ The(call.ret).right = CutTo(PadTo(Files[call.path].right, n), n)

\* ceil(S / N)
CeilDiv(S, N) == (S + N - 1) \div N

\* C12: a Filter made of S stereo samples with block size N holds
\* ceil(S/N) blocks of N samples, the last one zero-padded when N does not
\* divide S, and the construction fails when S = 0.
C12_FilterPartition ==
    call.op = "Filter" =>
        IF call.S = 0 THEN call.raised # ""
        ELSE /\ call.raised = ""
             /\ The(call.ret).ir_blocks = CeilDiv(call.S, block_size)
             /\ \A r \in 1..CeilDiv(call.S, block_size) :
                    The(The(call.ret).IR_left_blocked)[r]
                        = SubSeq(PadTo(Ramp(call.S), CeilDiv(call.S, block_size) * block_size),
                                 (r - 1) * block_size + 1, r * block_size)

\* The first tokens that select a population, and the lines that are skipped.
PopulationTokens == {"HPFILTER", "FILTER", "LATEREVERB", "DIRECTIVITY"}
IsCommentOrBlank(line) == line.tok = "" \/ StartsWith(line.tok, "#")

\* C13: a line that is neither a comment nor blank and whose first token is
\* not exactly HPFILTER, FILTER, LATEREVERB or DIRECTIVITY and is not a
\* number makes the construction of the store fail; it is neither loaded
\* nor skipped.
C13_ListClassification ==
    (/\ call.op = "FilterStorage"
     /\ ~IsCommentOrBlank(hist.test)
     /\ hist.test.tok \notin PopulationTokens
     /\ ~IsDigitTok(hist.test.tok))
        => call.raised # ""

\* ------------------------------------------- a convolver fed a stream
\* A convolver without split filters, mono or stereo, is given a filter
\* before its first block and then fed blocks one after the other.
StreamLen == 4

\* Impulse responses and the prepared filters made of them.
StreamIRs ==
    { [oid |-> 11, left |-> [i \in 1..EarlySize |-> i],
                   right |-> [i \in 1..EarlySize |-> EarlySize + 1 - i]],
      [oid |-> 12, left |-> Delta(EarlySize, block_size + 1, 1),
                   right |-> Delta(EarlySize, 2, 0 - 1)] }
StreamFilter(ir) == PreparedFilter(ir.oid, ir.left, ir.right, IRBlocks, block_size)
StreamIR(oid) == CHOOSE ir \in StreamIRs : ir.oid = oid

\* filter: the oid of the installed filter (0: none); in: the blocks fed so
\* far, per column; out: the concatenated outputs, per ear.
StreamHist0 ==
    [ filter |-> 0, in |-> [left |-> << >>, right |-> << >>],
      out |-> [left |-> << >>, right |-> << >>] ]
NoStreamCall == [op |-> "none", raised |-> ""]

InitStream ==
    /\ \E stereo \in BOOLEAN :
          convolvers = [c \in {0} |-> ConvolverFFTW_init(EarlySize, block_size, stereo, FALSE, 0)]
    /\ poseParser = None
    /\ convolverHP = None
    /\ filterStorage = None
    /\ engine = None
    /\ call = NoStreamCall
    /\ hist = StreamHist0

\* setIR(filter, False, 1, unit directivity) before the first block.
stream_setIR ==
    /\ convolvers[0].processCounter = 0
    /\ \E ir \in StreamIRs :
        \E r \in {setIR(convolvers[0], StreamFilter(ir), FALSE, 1, Some(FilterUnit))} :
            /\ convolvers' = [convolvers EXCEPT ![0] = r.conv]
            /\ call' = [op |-> "setIR", raised |-> r.raised]
            /\ hist' = IF r.raised = "" THEN [hist EXCEPT !.filter = ir.oid] ELSE hist
    /\ ConvFrame

\* process(block): a mono convolver is given the left column.
stream_process ==
    /\ convolvers[0].processCounter < StreamLen
    /\ \E bl \in Blocks, br \in Blocks :
        /\ (~convolvers[0].processStereo => br = bl)
        /\ \E c \in {process(convolvers[0],
                              IF convolvers[0].processStereo
                              THEN [left |-> bl, right |-> br] ELSE bl)} :
            /\ convolvers' = [convolvers EXCEPT ![0] = c]
            /\ call' = [op |-> "process", raised |-> ""]
            /\ hist' = [hist EXCEPT !.in = [left |-> Append(@.left, bl),
                                           right |-> Append(@.right, br)],
                                    !.out = [left |-> @.left \o c.outputLeft,
                                             right |-> @.right \o c.outputRight]]
    /\ ConvFrame

NextStream ==
    \/ stream_setIR
    \/ stream_process

SpecStream == InitStream /\ [][NextStream]_vars

\* The input of the impulse test after k blocks: a unit impulse at sample 0
\* of the first block, then zero blocks.
ImpulseThenZeros(k) == [j \in 1..k |-> IF j = 1 THEN Delta(block_size, 1, 1) ELSE Zeros(block_size)]
\* The first n samples of an impulse response followed by zeros, in the
\* units of the outputs.
ResponseStream(ir, n) == [i \in 1..n |-> IF i <= Len(ir) THEN ir[i] * WScale ELSE 0]

\* C15: a mono convolver with a filter installed before the first block and
\* crossfading off, fed a unit impulse at sample 0 and then zero blocks,
\* puts out per ear the filter's impulse response, block after block, and
\* zeros after its B*N samples.
C15_ImpulsePreservesFilter ==
    (/\ ~convolvers[0].processStereo
     /\ hist.filter # 0
     /\ convolvers[0].processCounter >= 1
     /\ hist.in.left = ImpulseThenZeros(convolvers[0].processCounter))
        => /\ hist.out.left = ResponseStream(StreamIR(hist.filter).left,
                                             convolvers[0].processCounter * block_size)
           /\ hist.out.right = ResponseStream(StreamIR(hist.filter).right,
                                              convolvers[0].processCounter * block_size)

C15_Witness ==
    /\ ~convolvers[0].processStereo
    /\ hist.filter = 11
    /\ convolvers[0].processCounter = IRBlocks + 1
    /\ hist.in.left = ImpulseThenZeros(IRBlocks + 1)
    /\ SubSeq(hist.out.left, 1, EarlySize) = [i \in 1..EarlySize |-> i * WScale]
    /\ SubSeq(hist.out.left, EarlySize + 1, EarlySize + block_size) = Zeros(block_size)

\* The 2N-sample window formed at call j from the blocks fed: the block of
\* call j-1 (zeros before the first call) followed by the block of call j.
WindowAt(blocks, j) == (IF j = 1 THEN Zeros(block_size) ELSE blocks[j - 1]) \o blocks[j]

\* C20: after the k-th process(), row i of FDL_left (counted from 0) holds
\* the spectrum of the window formed at call k-i for i < min(k, T) and zeros
\* for i >= k, so the spectrum of call k-T is in no row; FDL_right holds the
\* same of the right column, which in mono mode makes it equal to FDL_left.
C20_DelayLineRing ==
    convolvers[0].processCounter >= 1 =>
        /\ \A i \in 0..(convolvers[0].IR_blocks - 1) :
              /\ convolvers[0].FDL_left[i + 1] =
                    IF i < convolvers[0].processCounter
                    THEN rfft_window(WindowAt(hist.in.left, convolvers[0].processCounter - i))
                    ELSE Zeros(2 * block_size)
              /\ convolvers[0].FDL_right[i + 1] =
                    IF i < convolvers[0].processCounter
                    THEN rfft_window(WindowAt(hist.in.right, convolvers[0].processCounter - i))
                    ELSE Zeros(2 * block_size)
        /\ ~convolvers[0].processStereo => convolvers[0].FDL_right = convolvers[0].FDL_left

C20_Witness ==
    /\ ~convolvers[0].processStereo
    /\ convolvers[0].processCounter = convolvers[0].IR_blocks + 1
    /\ hist.in.left = ImpulseThenZeros(convolvers[0].processCounter)
    /\ convolvers[0].FDL_left[convolvers[0].IR_blocks]
          = rfft_window(Delta(block_size, 1, 1) \o Zeros(block_size))
    /\ \A i \in 1..convolvers[0].IR_blocks :
          convolvers[0].FDL_left[i] # rfft_window(WindowAt(hist.in.left, 1))

\* ------------------------------------ more on the convolver driven alone
\* C17: a process() call takes the crossfade branch exactly when the last
\* successful setIR / setLateReverb call since the previous process()
\* passed do_interpolation = True; after it interpolate is false and
\* processCounter is one more than before.
C17_CrossfadeOneBlock ==
    [][ call'.op = "process" =>
           /\ hist'.xfaded = (hist.lastInterp = Some(TRUE))
           /\ ~convolvers'[0].interpolate
           /\ convolvers'[0].processCounter = convolvers[0].processCounter + 1 ]_vars

C17_Witness ==
    /\ call.op = "process"
    /\ hist.xfaded
    /\ hist.setsBefore = 2
    /\ convolvers[0].processCounter = 2

\* C18: setIR changes nothing of the convolver but rows
\* [0, late_early_transition) of TF_left_blocked / TF_right_blocked and the
\* flags interpolate and buildNewFilter: the rows from late_early_transition
\* on, TF_late_*, TF_*_blocked_previous, the FDLs, the input buffers and
\* processCounter are as before.
C18_SetIRFrame ==
    [][ call'.op = "setIR" =>
           /\ convolvers'[0] =
                 [convolvers[0] EXCEPT
                     !.TF_left_blocked = convolvers'[0].TF_left_blocked,
                     !.TF_right_blocked = convolvers'[0].TF_right_blocked,
                     !.interpolate = convolvers'[0].interpolate,
                     !.buildNewFilter = convolvers'[0].buildNewFilter]
           /\ \A i \in (convolvers[0].late_early_transition + 1)..convolvers[0].IR_blocks :
                 /\ convolvers'[0].TF_left_blocked[i] = convolvers[0].TF_left_blocked[i]
                 /\ convolvers'[0].TF_right_blocked[i] = convolvers[0].TF_right_blocked[i] ]_vars

C18_Witness ==
    /\ call.op = "setIR"
    /\ call.raised = ""
    /\ convolvers[0].useSplittedFilters
    /\ convolvers[0].processCounter >= 1
    /\ convolvers[0].TF_left_blocked[convolvers[0].IR_blocks] # Zeros(2 * block_size)
    /\ convolvers[0].TF_left_blocked[1] # convolvers[0].TF_left_blocked_previous[1]
    /\ convolvers[0].FDL_left[1] # Zeros(2 * block_size)

\* C19: with split filters, when process() has returned, the rows of
\* TF_left_blocked / TF_right_blocked from late_early_transition on are
\* TF_late_left_blocked / TF_late_right_blocked, which hold the spectra of
\* the late-reverb filter set last (zeros if none was set).
LateSpectra(oid) ==
    IF oid = 0 THEN [left |-> ZeroRows(LateSize \div block_size, 2 * block_size),
                     right |-> ZeroRows(LateSize \div block_size, 2 * block_size)]
    ELSE getFilterFD(FilterByOid(oid))
C19_LateTailCurrent ==
    (call.op = "process" /\ convolvers[0].useSplittedFilters) =>
        \A i \in 1..convolvers[0].late_IR_blocks :
            /\ convolvers[0].TF_left_blocked[convolvers[0].late_early_transition + i]
                  = convolvers[0].TF_late_left_blocked[i]
            /\ convolvers[0].TF_right_blocked[convolvers[0].late_early_transition + i]
                  = convolvers[0].TF_late_right_blocked[i]
            /\ convolvers[0].TF_late_left_blocked[i] = LateSpectra(hist.late).left[i]
            /\ convolvers[0].TF_late_right_blocked[i] = LateSpectra(hist.late).right[i]

C19_Witness ==
    /\ call.op = "process"
    /\ convolvers[0].useSplittedFilters
    /\ convolvers[0].processCounter = 2
    /\ hist.late = 5
    /\ hist.lastSet = "setIR"
    /\ convolvers[0].TF_left_blocked[convolvers[0].IR_blocks] = getFilterFD(FilterLate2).left[1]
    /\ hist.old # None
    /\ The(hist.old)[1][convolvers[0].IR_blocks] = getFilterFD(FilterLate).left[1]

\* ------------------------------------------------- the forms of a Filter
TimeForm(f) ==
    /\ ~f.fd_available
    /\ ~IsNone(f.IR_left_blocked) /\ ~IsNone(f.IR_right_blocked)
    /\ IsNone(f.TF_left_blocked) /\ IsNone(f.TF_right_blocked)
FreqForm(f) ==
    /\ f.fd_available
    /\ ~IsNone(f.TF_left_blocked) /\ ~IsNone(f.TF_right_blocked)
    /\ IsNone(f.IR_left_blocked) /\ IsNone(f.IR_right_blocked)

\* C21: a Filter is in its time-domain form or in its frequency-domain form,
\* never in both and never in neither; after storeInFDomain it is in the
\* frequency-domain form, and once there it stays there.
C21_FilterEitherForm ==
    (call.op \in FilterOps /\ ~IsNone(call.ret)) =>
        /\ TimeForm(The(call.ret)) \/ FreqForm(The(call.ret))
        /\ call.op = "storeInFDomain" => FreqForm(The(call.ret))

\* C22: getFilterFD on a Filter that storeInFDomain has not prepared raises.
C22_UnpreparedReadFails ==
    (call.op = "getFilterFD" /\ ~The(call.ret).fd_available) => call.raised # ""

\* ---------------------------------------- two sets of convolvers side by side
\* The convolvers an engine holds, constructed directly: one mono convolver
\* per channel and, or not, one stereo headphone convolver, each given a
\* filter by setIR(filter, False, 1, directivity of unit spectra).  There are
\* two such sets in the same state.  A block for channel 0 goes to both, a
\* block for another channel to the second set only (hist.other); a block is
\* rendered by the calls process_block makes: convolvers[ch].process(block),
\* then convolverHP.process of its output.  hist.n counts the blocks.

MaxRequests == 3

IsoConvolver(stereo) == ConvolverFFTW_init(EarlySize, block_size, stereo, FALSE, 0)
InstalledOn(conv, f) == setIR(conv, f, FALSE, 1, Some(FilterUnit)).conv
IsoParts(hp) ==
    [ convolvers |-> [c \in ValidChannels |->
                        InstalledOn(IsoConvolver(FALSE), IF c = 0 THEN FilterA ELSE FilterB)],
      convolverHP |-> IF hp THEN Some(InstalledOn(IsoConvolver(TRUE), FilterA)) ELSE None ]

\* convolvers[ch].process(b), then convolverHP.process of the two outputs.
process_chain(parts, ch, b) ==
    Only({
        IF IsNone(parts.convolverHP)
        THEN [ parts |-> [parts EXCEPT !.convolvers[ch] = conv],
               reply |-> [left |-> conv.outputLeft, right |-> conv.outputRight] ]
        ELSE Only({
            [ parts |-> [parts EXCEPT !.convolvers[ch] = conv, !.convolverHP = Some(hpc)],
              reply |-> [left |-> hpc.outputLeft, right |-> hpc.outputRight] ] :
            hpc \in {process(The(parts.convolverHP),
                             [left |-> conv.outputLeft, right |-> conv.outputRight])} }) :
        conv \in {process(parts.convolvers[ch], b)} })

NoIsoCall == [op |-> "none", channel |-> 0, reply |-> None]

InitIso ==
    \E hp \in BOOLEAN :
        \E parts \in {IsoParts(hp)} :
            /\ convolvers = parts.convolvers
            /\ convolverHP = parts.convolverHP
            /\ engine = None
            /\ poseParser = None
            /\ filterStorage = None
            /\ call = NoIsoCall
            /\ hist = [other |-> parts, n |-> 0, reply |-> None]

IsoFrame == UNCHANGED <<engine, poseParser, filterStorage>>

\* A block for channel 0, rendered by both sets.
iso_request_same ==
    /\ hist.n < MaxRequests
    /\ \E b \in Blocks :
        \E r \in {process_chain([convolvers |-> convolvers, convolverHP |-> convolverHP], 0, b)},
           q \in {process_chain(hist.other, 0, b)} :
            /\ convolvers' = r.parts.convolvers
            /\ convolverHP' = r.parts.convolverHP
            /\ call' = [op |-> "process", channel |-> 0, reply |-> Some(r.reply)]
            /\ hist' = [other |-> q.parts, n |-> hist.n + 1, reply |-> Some(q.reply)]
    /\ IsoFrame

\* A block for another channel, rendered by the second set only.
iso_request_other ==
    /\ hist.n < MaxRequests
    /\ \E b \in Blocks, ch \in ValidChannels \ {0} :
        \E q \in {process_chain(hist.other, ch, b)} :
            /\ call' = [op |-> "process", channel |-> ch, reply |-> None]
            /\ hist' = [other |-> q.parts, n |-> hist.n + 1, reply |-> Some(q.reply)]
    /\ UNCHANGED <<convolvers, convolverHP>>
    /\ IsoFrame

NextIso ==
    \/ iso_request_same
    \/ iso_request_other

SpecIso == InitIso /\ [][NextIso]_vars

\* C24: what is rendered for a block of channel 0 is the same in two runs
\* that got the same blocks on channel 0 and differ only in the blocks of
\* the other channels, with and without the headphone convolver.
C24_ChannelIsolation ==
    (call.op = "process" /\ call.channel = 0) => call.reply = hist.reply

====
